---- MODULE Spec2Model ----
(***************************************************************************)
(* Model of src/tools/convert_image_to_rgb10.py: one run of main().        *)
(* The run is a sequential program; pc names the source line about to be   *)
(* executed.  The image decoder (PIL) and the bit accumulator (bitstring)  *)
(* are modelled by what the calls made in main() do:                       *)
(*   bitstring.Bits(uint=v, length=n)  n bits, most significant first;     *)
(*                                     CreationError unless 0 <= v < 2^n   *)
(*   BitArray.append(bits)             concatenation                       *)
(*   BitArray.bytes                    the bits as bytes; InterpretError   *)
(*                                     unless the length is a multiple of 8*)
(***************************************************************************)
EXTENDS Integers, Sequences, FiniteSets

VARIABLES argc, inputFile, outFile, fileOps, image, pixel, buffer, x, y,
          pc, stdout, exitCode, error

vars == <<argc, inputFile, outFile, fileOps, image, pixel, buffer, x, y,
          pc, stdout, exitCode, error>>

\* ------------------------------------------------------------------ bounds

\* Largest number of pixels (width * height) of an input image.
MaxArea == 4

\* Largest len(sys.argv) tried.
MaxArgc == 4

\* ------------------------------------------------------------------ inputs

\* Pixels as Image.convert("RGB") delivers them: three 8-bit channels.
PixelVals == {<<0, 0, 0>>, <<255, 128, 0>>, <<255, 255, 255>>, <<1, 2, 3>>}

\* Pixels of a grid whose source does not keep the 8-bit guarantee.
RawPixelVals == {<<255, 128, 0>>, <<1, 2, 3>>,
                 <<256, 0, 0>>, <<0, -1, 0>>, <<3, 4, 300>>}

\* image.size values: (width, height).
Sizes == {s \in (0..MaxArea) \X (0..MaxArea) : s[1] * s[2] <= MaxArea}

\* The coordinates image_data accepts.
Coords(s) == (0..(s[1] - 1)) \X (0..(s[2] - 1))

EmptyData == [c \in {} |-> <<0, 0, 0>>]

\* An input file no decoder accepts.
Undecodable == [decodable |-> FALSE, size |-> <<0, 0>>, data |-> EmptyData]

InputFiles(P) ==
    {Undecodable} \cup
    UNION {{[decodable |-> TRUE, size |-> s, data |-> d] : d \in [Coords(s) -> P]}
           : s \in Sizes}

\* The output path before the run: absent, or a file with older content.
Absent == [exists |-> FALSE, content |-> <<>>]

OldFile == [exists |-> TRUE, content |-> <<171, 205>>]

InitialFiles == {Absent, OldFile}

NoImage == [loaded |-> FALSE, size |-> <<0, 0>>, data |-> EmptyData]

\* ------------------------------------------------------- library functions

\* Fault variant of SampleBits: byte-aligned 16-bit samples.
SampleBitsByteAligned == 2 * 8

\* length=10 of the three bitstring.Bits(...) calls.
SampleBits == 10

Pow2(n) == 2 ^ n

\* Fault variant of Scale: 255 mapped to 1023.
ScaleFullRange(c) == (c * 1023) \div 255

\* pixel[i] * 4
Scale(c) == c * 4

\* Fault variant of FitsUint: no range check, the value wraps into n bits.
FitsUintWrap(v, n) == TRUE

\* bitstring.Bits(uint=v, length=n) accepts v exactly when it fits n bits.
FitsUint(v, n) == 0 <= v /\ v < Pow2(n)

\* Fault variant of UintBits: least significant bit first.
UintBitsLsbFirst(v, n) == [i \in 1..n |-> (v \div Pow2(i - 1)) % 2]

\* The bits of bitstring.Bits(uint=v, length=n), first bit first.
UintBits(v, n) == [i \in 1..n |-> (v \div Pow2(n - i)) % 2]

\* The unsigned value of bits[off+1 .. off+n], first bit most significant.
RECURSIVE BitsVal(_, _, _)
BitsVal(bits, off, n) ==
    IF n = 0 THEN 0 ELSE 2 * BitsVal(bits, off, n - 1) + bits[off + n]

\* BitArray.bytes raises InterpretError unless this holds.
WholeBytes(bits) == Len(bits) % 8 = 0

\* Fault variant of ToBytes: one byte too many (Len \div 8 + 1).
ToBytesExtraByte(bits) ==
    [j \in 1..(Len(bits) \div 8 + 1) |->
        IF j <= Len(bits) \div 8 THEN BitsVal(bits, 8 * (j - 1), 8) ELSE 0]

\* BitArray.bytes of a whole number of bytes.
ToBytes(bits) == [j \in 1..(Len(bits) \div 8) |-> BitsVal(bits, 8 * (j - 1), 8)]

\* Fault variant of ArgsOk: extra arguments accepted.
ArgsOkAtLeast(n) == n >= 3

\* len(sys.argv) != 3 is the usage error.
ArgsOk(n) == n = 3

\* Fault variant of OpenWb: mode "ab", older content kept.
OpenAppend(f) == [exists |-> TRUE, content |-> f.content]

\* open(output_path, "wb"): the file exists and is empty.
OpenWb(f) == [exists |-> TRUE, content |-> <<>>]

\* ------------------------------------------------------------------- state

InitWith(P) ==
    /\ argc \in 1..MaxArgc
    /\ inputFile \in InputFiles(P)
    /\ outFile \in InitialFiles
    /\ fileOps = <<>>
    /\ image = NoImage
    /\ pixel = <<>>
    /\ buffer = <<>>
    /\ x = 0
    /\ y = 0
    /\ pc = "L20"
    /\ stdout = <<>>
    /\ exitCode = <<>>
    /\ error = "none"

Init == InitWith(PixelVals)

InitRaw == InitWith(RawPixelVals)

\* An uncaught exception ends the run with exit status 1.
Raise(e) ==
    /\ error' = e
    /\ exitCode' = <<1>>
    /\ pc' = "exit"

\* An exception inside the with block closes the output file on the way out.
RaiseInWith(e) ==
    /\ Raise(e)
    /\ fileOps' = Append(fileOps, "close")

\* ----------------------------------------------------------------- actions

\* Lines 20-26.
CheckArgs ==
    /\ pc = "L20"
    /\ IF ArgsOk(argc)
       THEN /\ pc' = "L28"
            /\ UNCHANGED <<stdout, exitCode>>
       ELSE /\ stdout' = stdout \o <<<<"usage", 0, 0>>, <<"description", 0, 0>>>>
            /\ exitCode' = <<1>>
            /\ pc' = "exit"
    /\ UNCHANGED <<argc, inputFile, outFile, fileOps, image, pixel, buffer,
                   x, y, error>>

\* Lines 28-29.
OpenImage ==
    /\ pc = "L28"
    /\ IF inputFile.decodable
       THEN /\ image' = [loaded |-> TRUE, size |-> inputFile.size,
                         data |-> inputFile.data]
            /\ pc' = "L30"
            /\ UNCHANGED <<exitCode, error>>
       ELSE /\ Raise("UnidentifiedImageError")
            /\ UNCHANGED image
    /\ UNCHANGED <<argc, inputFile, outFile, fileOps, pixel, buffer, x, y, stdout>>

\* Lines 30-32.
PrintInputSize ==
    /\ pc = "L30"
    /\ stdout' = Append(stdout, <<"input_size", image.size[1], image.size[2]>>)
    /\ buffer' = <<>>
    /\ pc' = "L34"
    /\ UNCHANGED <<argc, inputFile, outFile, fileOps, image, pixel, x, y,
                   exitCode, error>>

\* Line 34, and the start of range(image.size[1]).
OpenOutput ==
    /\ pc = "L34"
    /\ outFile' = OpenWb(outFile)
    /\ fileOps' = Append(fileOps, "open_wb")
    /\ y' = 0
    /\ pc' = "L35"
    /\ UNCHANGED <<argc, inputFile, image, pixel, buffer, x, stdout, exitCode, error>>

\* Line 35: the next row, or the end of the loop.
ForY ==
    /\ pc = "L35"
    /\ IF y < image.size[2]
       THEN /\ x' = 0
            /\ pc' = "L36"
       ELSE /\ pc' = "L50"
            /\ UNCHANGED x
    /\ UNCHANGED <<argc, inputFile, outFile, fileOps, image, pixel, buffer, y,
                   stdout, exitCode, error>>

\* Lines 36-37: the next pixel of the row, or the end of the row.
ForX ==
    /\ pc = "L36"
    /\ IF x < image.size[1]
       THEN /\ pixel' = image.data[<<x, y>>]
            /\ pc' = "L41"
            /\ UNCHANGED y
       ELSE /\ y' = y + 1
            /\ pc' = "L35"
            /\ UNCHANGED pixel
    /\ UNCHANGED <<argc, inputFile, outFile, fileOps, image, buffer, x,
                   stdout, exitCode, error>>

\* bitstring.Bits(uint=pixel[i] * 4, length=10), then buffer.append.
AppendSample(i, next) ==
    IF FitsUint(Scale(pixel[i]), SampleBits)
    THEN /\ buffer' = buffer \o UintBits(Scale(pixel[i]), SampleBits)
         /\ pc' = next
         /\ UNCHANGED <<fileOps, exitCode, error>>
    ELSE /\ RaiseInWith("CreationError")
         /\ UNCHANGED buffer

\* Lines 41-42.
AppendR ==
    /\ pc = "L41"
    /\ AppendSample(1, "L44")
    /\ UNCHANGED <<argc, inputFile, outFile, image, pixel, x, y, stdout>>

\* Lines 44-45.
AppendG ==
    /\ pc = "L44"
    /\ AppendSample(2, "L47")
    /\ UNCHANGED <<argc, inputFile, outFile, image, pixel, x, y, stdout>>

\* Lines 47-48, and the step of range(image.size[0]).
AppendB ==
    /\ pc = "L47"
    /\ AppendSample(3, "L36")
    /\ x' = IF FitsUint(Scale(pixel[3]), SampleBits) THEN x + 1 ELSE x
    /\ UNCHANGED <<argc, inputFile, outFile, image, pixel, y, stdout>>

\* Line 50.
PrintOutputSize ==
    /\ pc = "L50"
    /\ IF WholeBytes(buffer)
       THEN /\ stdout' = Append(stdout, <<"output_size", Len(ToBytes(buffer)), 0>>)
            /\ pc' = "L51"
            /\ UNCHANGED <<fileOps, exitCode, error>>
       ELSE /\ RaiseInWith("InterpretError")
            /\ UNCHANGED stdout
    /\ UNCHANGED <<argc, inputFile, outFile, image, pixel, buffer, x, y>>

\* Line 51, the end of the with block and the return of main().
WriteOutput ==
    /\ pc = "L51"
    /\ IF WholeBytes(buffer)
       THEN /\ outFile' = [outFile EXCEPT !.content = @ \o ToBytes(buffer)]
            /\ fileOps' = fileOps \o <<"write", "close">>
            /\ exitCode' = <<0>>
            /\ pc' = "exit"
            /\ UNCHANGED error
       ELSE /\ RaiseInWith("InterpretError")
            /\ UNCHANGED outFile
    /\ UNCHANGED <<argc, inputFile, image, pixel, buffer, x, y, stdout>>

Next ==
    \/ CheckArgs
    \/ OpenImage
    \/ PrintInputSize
    \/ OpenOutput
    \/ ForY
    \/ ForX
    \/ AppendR
    \/ AppendG
    \/ AppendB
    \/ PrintOutputSize
    \/ WriteOutput

Spec == Init /\ [][Next]_vars

SpecRaw == InitRaw /\ [][Next]_vars

\* ------------------------------------------------- vocabulary of the claims

Terminated == pc = "exit"

Range(s) == {s[i] : i \in DOMAIN s}

InW == inputFile.size[1]

InH == inputFile.size[2]

\* Every channel of the input grid is an 8-bit value.
ValidGrid ==
    \A c \in Coords(inputFile.size) : \A i \in 1..3 : inputFile.data[c][i] \in 0..255

\* Correct argument count, a decodable image, 8-bit channels.
WellFormed == argc = 3 /\ inputFile.decodable /\ ValidGrid

CeilDiv(a, b) == (a + b - 1) \div b

\* Bit k (from 1) of a byte sequence, most significant bit of each byte first.
ContentBit(bytes, k) == (bytes[(k - 1) \div 8 + 1] \div (2 ^ (7 - ((k - 1) % 8)))) % 2

\* Bit i (from 1) of a 10-bit field holding v, most significant bit first.
FieldBit(v, i) == (v \div (2 ^ (10 - i))) % 2

\* The grid pixel at row-major position n.
PixelAtIndex(n) == image.data[<<n % image.size[1], n \div image.size[1]>>]

\* The channel value that 10-bit field j (from 0) of the stream was made from.
FieldChannel(j) == PixelAtIndex(j \div 3)[(j % 3) + 1]

\* The number of complete 10-bit fields in the accumulator.
FieldsDone == Len(buffer) \div 10

\* The number of complete 30-bit pixels in the accumulator.
PixelsDone == Len(buffer) \div 30

\* ------------------------------------------------------------------ claims

\* C1: for every well-formed input the bytes in the output file at the end of
\* the run number exactly ceil(W * H * 30 / 8), also when W * H * 30 is not a
\* multiple of 8.
C1_LengthLaw ==
    (Terminated /\ WellFormed) =>
        Len(outFile.content) = CeilDiv(InW * InH * 30, 8)

\* C2: for every well-formed input the run raises no error, writes the packed
\* bytes, prints the input dimensions and the output byte count, and exits 0.
C2_RunsToCompletion ==
    (Terminated /\ WellFormed) =>
        /\ error = "none"
        /\ exitCode = <<0>>
        /\ "write" \in Range(fileOps)
        /\ Len(stdout) = 2
        /\ stdout[1] = <<"input_size", InW, InH>>
        /\ stdout[2] = <<"output_size", CeilDiv(InW * InH * 30, 8), 0>>

\* C3: when W * H * 30 is not a multiple of 8, the output is the stream's bits
\* followed by zero bits that fill the last byte from its low-order end.
C3_TrailingZeroPad ==
    (Terminated /\ WellFormed /\ (InW * InH * 30) % 8 # 0) =>
        /\ Len(buffer) = InW * InH * 30
        /\ Len(outFile.content) = CeilDiv(Len(buffer), 8)
        /\ \A k \in 1..(8 * Len(outFile.content)) :
              ContentBit(outFile.content, k) = IF k <= Len(buffer) THEN buffer[k] ELSE 0

\* C4: pixels are packed in row-major order without padding: when the loop is
\* about to pack pixel (x, y) the accumulator holds exactly 30 * (y * W + x)
\* bits, each appended field adds 10, and the 30 bits at offset 30 * N are the
\* samples of the pixel at row-major position N.
C4_RowMajorOffsets ==
    /\ pc \in {"L36", "L41"} => Len(buffer) = 30 * (y * image.size[1] + x)
    /\ pc = "L44" => Len(buffer) = 30 * (y * image.size[1] + x) + 10
    /\ pc = "L47" => Len(buffer) = 30 * (y * image.size[1] + x) + 20
    /\ pc = "L35" => Len(buffer) = 30 * y * image.size[1]
    /\ pc \in {"L50", "L51"} => Len(buffer) = 30 * image.size[1] * image.size[2]
    /\ \A n \in 0..(PixelsDone - 1) :
          /\ BitsVal(buffer, 30 * n, 10) = 4 * PixelAtIndex(n)[1]
          /\ BitsVal(buffer, 30 * n + 10, 10) = 4 * PixelAtIndex(n)[2]
          /\ BitsVal(buffer, 30 * n + 20, 10) = 4 * PixelAtIndex(n)[3]

C4_Witness ==
    /\ pc = "L41"
    /\ image.size = <<2, 2>>
    /\ x = 1 /\ y = 1
    /\ Len(buffer) = 90
    /\ image.data[<<1, 0>>] # image.data[<<0, 1>>]

\* C5: in every pixel's 30-bit span bits [0,10) are the R sample, [10,20) the
\* G sample and [20,30) the B sample, each written most significant bit first.
C5_ChannelOrder ==
    \A j \in 0..(FieldsDone - 1) : \A i \in 1..10 :
        buffer[30 * (j \div 3) + (10 * (j % 3)) + i] = FieldBit(4 * FieldChannel(j), i)

C5_Witness ==
    /\ Len(buffer) >= 30
    /\ image.data[<<0, 0>>] = <<255, 128, 0>>
    /\ SubSeq(buffer, 1, 10) = <<1, 1, 1, 1, 1, 1, 1, 1, 0, 0>>
    /\ SubSeq(buffer, 11, 20) = <<1, 0, 0, 0, 0, 0, 0, 0, 0, 0>>
    /\ SubSeq(buffer, 21, 30) = <<0, 0, 0, 0, 0, 0, 0, 0, 0, 0>>

\* C6: every 10-bit sample in the stream equals its 8-bit channel value times
\* four, so it is a multiple of 4 in [0,1020]: no clamping, no wrap-around.
C6_ScalingLaw ==
    \A j \in 0..(FieldsDone - 1) :
        /\ FieldChannel(j) \in 0..255
        /\ BitsVal(buffer, 10 * j, 10) = FieldChannel(j) * 4
        /\ BitsVal(buffer, 10 * j, 10) % 4 = 0
        /\ BitsVal(buffer, 10 * j, 10) \in 0..1020

C6_Witness ==
    /\ Terminated
    /\ exitCode = <<0>>
    /\ \E j \in 0..(FieldsDone - 1) : FieldChannel(j) = 255 /\ BitsVal(buffer, 10 * j, 10) = 1020
    /\ \E j \in 0..(FieldsDone - 1) : FieldChannel(j) = 3 /\ BitsVal(buffer, 10 * j, 10) = 12

\* The first channel (1..3) of a pixel that is no 8-bit value, 0 if none.
FirstInvalid(p) ==
    IF p[1] \notin 0..255 THEN 1
    ELSE IF p[2] \notin 0..255 THEN 2
    ELSE IF p[3] \notin 0..255 THEN 3
    ELSE 0

\* C7: a channel value outside [0,255] makes the packing fail at that pixel:
\* no sample made from an invalid value is ever in the accumulator, nothing is
\* written to the output file, and the run ends with the error raised at the
\* first invalid channel in row-major order.
C7_FailFast ==
    /\ Len(buffer) % 10 = 0
    /\ \A j \in 0..(FieldsDone - 1) : FieldChannel(j) \in 0..255
    /\ (image.loaded /\ ~ValidGrid) =>
          /\ "write" \notin Range(fileOps)
          /\ fileOps # <<>> => outFile.content = <<>>
    /\ (Terminated /\ image.loaded /\ ~ValidGrid) =>
          /\ error = "CreationError"
          /\ exitCode = <<1>>
          /\ pixel = image.data[<<x, y>>]
          /\ FirstInvalid(pixel) # 0
          /\ Len(buffer) = 30 * (y * image.size[1] + x) + 10 * (FirstInvalid(pixel) - 1)
          /\ \A n \in 0..(y * image.size[1] + x - 1) : FirstInvalid(PixelAtIndex(n)) = 0

C7_Witness ==
    /\ Terminated
    /\ error = "CreationError"
    /\ pixel = <<0, -1, 0>>
    /\ Len(buffer) = 40
    /\ fileOps = <<"open_wb", "close">>
    /\ outFile = [exists |-> TRUE, content |-> <<>>]

\* C8: a zero-area image is valid input: nothing is appended, the run ends
\* without error and the output written is empty.
C8_EmptyImage ==
    (image.loaded /\ image.size[1] * image.size[2] = 0) =>
        /\ buffer = <<>>
        /\ error = "none"
        /\ pc \notin {"L41", "L44", "L47"}
        /\ Terminated =>
              /\ exitCode = <<0>>
              /\ fileOps = <<"open_wb", "write", "close">>
              /\ outFile = [exists |-> TRUE, content |-> <<>>]
              /\ stdout[2] = <<"output_size", 0, 0>>

C8_Witness ==
    /\ Terminated
    /\ image.loaded
    /\ image.size = <<0, 3>>
    /\ exitCode = <<0>>
    /\ outFile.content = <<>>

\* C9: with an argument count other than two the run prints the usage message
\* and exits 1 before anything else: the image is never opened and the output
\* file is never created, truncated or written.
C9_UsageError ==
    argc # 3 =>
        /\ pc \in {"L20", "exit"}
        /\ ~image.loaded
        /\ fileOps = <<>>
        /\ outFile \in InitialFiles
        /\ Terminated =>
              /\ exitCode = <<1>>
              /\ error = "none"
              /\ stdout = <<<<"usage", 0, 0>>, <<"description", 0, 0>>>>

C9_Witness ==
    /\ Terminated
    /\ argc = 4
    /\ exitCode = <<1>>
    /\ outFile = OldFile
    /\ inputFile.decodable

\* C10: the output file is opened (created or truncated) before the first
\* pixel is packed and is written once, after the last pixel: after the open
\* its content is empty or the complete packed byte sequence, and a run that
\* fails after the open leaves it existing and empty.
C10_OutputAtomic ==
    /\ (buffer # <<>> \/ pixel # <<>>) => (fileOps # <<>> /\ fileOps[1] = "open_wb")
    /\ fileOps # <<>> =>
          /\ outFile.exists
          /\ \/ outFile.content = <<>>
             \/ /\ Len(buffer) = 30 * image.size[1] * image.size[2]
                /\ 8 * Len(outFile.content) = 8 * CeilDiv(Len(buffer), 8)
                /\ \A k \in 1..Len(buffer) : ContentBit(outFile.content, k) = buffer[k]
    /\ "write" \in Range(fileOps) =>
          /\ Len(buffer) = 30 * image.size[1] * image.size[2]
          /\ Cardinality({i \in DOMAIN fileOps : fileOps[i] = "write"}) = 1
    /\ (Terminated /\ fileOps # <<>> /\ error # "none") =>
          outFile = [exists |-> TRUE, content |-> <<>>]

C10_Witness ==
    /\ Terminated
    /\ error = "InterpretError"
    /\ Len(buffer) = 90
    /\ fileOps = <<"open_wb", "close">>
    /\ outFile = [exists |-> TRUE, content |-> <<>>]

====
